---- MODULE Spec2Model ----
(***************************************************************************)
(* Model of server/app/models/LiveStream.py: the registry of live streams  *)
(* (LiveStreamEntity.livestreams), the per-stream status triple, the       *)
(* client list and the operations connect / disconnect / read / write /    *)
(* setStatus, executed by request threads and by the encoder's monitor.    *)
(*                                                                         *)
(* Each method is modelled twice from the same helpers: as one action (a   *)
(* call that runs alone: Spec, SpecTable and SpecIO), and cut into the     *)
(* steps between which CPython may switch threads (SpecNew and SpecConc),  *)
(* where pc[t] is the position of thread t and loc[t] its locals.          *)
(***************************************************************************)
EXTENDS Integers, Sequences, FiniteSets, TLC

\* ------------------------------------------------------------------ bounds

Threads == {"t1", "t2"}

\* connect calls are accepted while the client list is shorter than this
MaxClients == 2
\* write calls are accepted until this many were made
MaxWrites == 2
\* time.time() saturates at this value
MaxTime == 1

\* the (channel_id, quality) pairs asked for, in the order in which they are first
\* asked for (the ids are only formatted, split and compared, so one order stands for
\* all). Channel ids and qualities are strings without "-"; a string is modelled as a
\* sequence of tokens so that the id's formatting and splitting are computed
Args == << << <<"gr011">>, <<"1080p">> >>,
           << <<"gr011">>, <<"720p">> >>,
           << <<"bs101">>, <<"1080p">> >> >>

\* the pairs the client-table and payload specifications ask for
IOArgs == << Args[1], Args[2] >>

ClientTypes == {"mpegts", "hls"}

\* the details connect passes to setStatus, and the class default
dOffline  == "dOffline"
dReleased == "dReleased"
dStarting == "dStarting"
dONAir    == "dONAir"

\* (status, detail) pairs the encoder task / monitor passes to setStatus
MonitorArgs == { <<"Offline", dOffline>>, <<"ONAir", dONAir>>, <<"Idling", "dIdling">> }

VARIABLES
    livestreams,  \* LiveStreamEntity.livestreams: the dict, as its items in insertion order
    inst,         \* the heap of LiveStream objects; an object's identity is its index
    clients,      \* LiveStream.clients: the list object bound to the class attribute
    now,          \* the last value time.time() returned
    pc,           \* position of each thread
    loc,          \* locals of each thread's running call
    returned,     \* history: the objects LiveStream(channel, quality) calls have returned
    owner,        \* history (not in Spec): for each slot of clients, the object whose connect appended it
    gone,         \* history: slots disconnected through disconnect on their owner
    expect,       \* history (not in Spec): per slot, payloads written to its owner since it connected, not yet read
    balance,      \* history: per object, encoder launches minus Offline->Standby changes made by connect
    last,         \* history: the call that has just returned, when it ran alone
    nwrites       \* history: number of write calls made

vars == << livestreams, inst, clients, now, pc, loc, returned, owner, gone,
           expect, balance, last, nwrites >>

prog  == << livestreams, inst, clients, now >>
ghost == << returned, owner, gone, expect, balance, last, nwrites >>

\* ------------------------------------------------------------ pure helpers

\* f'{channel_id}-{quality}'
LivestreamId(channel_id, quality) == channel_id \o <<"-">> \o quality

\* str.split('-')
RECURSIVE SplitFrom(_, _, _)
SplitFrom(s, i, cur) ==
    IF i > Len(s) THEN <<cur>>
    ELSE IF s[i] = "-" THEN <<cur>> \o SplitFrom(s, i + 1, <<>>)
    ELSE SplitFrom(s, i + 1, Append(cur, s[i]))

Split(s) == SplitFrom(s, 1, <<>>)

\* the keys of the dict
RegKeys(reg) == { reg[i].key : i \in DOMAIN reg }

\* livestreams[livestream_id]
RegGet(reg, id) == reg[CHOOSE i \in DOMAIN reg : reg[i].key = id].obj

\* livestreams[livestream_id] = obj: a new key goes last, an existing key keeps its place
RegPut(reg, id, obj) ==
    IF id \in RegKeys(reg)
    THEN [i \in DOMAIN reg |-> IF reg[i].key = id THEN [key |-> id, obj |-> obj] ELSE reg[i]]
    ELSE Append(reg, [key |-> id, obj |-> obj])

\* a LiveStream object as object.__new__ leaves it: status, detail and updated_at
\* read through to the class attributes, livestream_id is not set before __init__;
\* key (history) is the id the object was constructed for
NewObject(id) ==
    [key |-> id, livestream_id |-> <<>>, status |-> "Offline", detail |-> dOffline,
     updated_at |-> 0]

\* len(list(filter(None, self.clients)))
ClientsCount(cl) == Cardinality({ i \in DOMAIN cl : cl[i].alive })

\* a getStatus() that reports the class default status for every object
GetStatusDefault(in, cl, o) ==
    [status |-> "Offline", detail |-> in[o].detail,
     updated_at |-> in[o].updated_at, clients_count |-> ClientsCount(cl)]

\* getStatus(): the snapshot of an object (every object reads the one class-level list)
GetStatus(in, cl, o) ==
    [status |-> in[o].status, detail |-> in[o].detail,
     updated_at |-> in[o].updated_at, clients_count |-> ClientsCount(cl)]

\* LiveStreamClient(type, queue.Queue() if type == 'mpegts' else None)
NewClient(type) == [type |-> type, alive |-> TRUE, hasq |-> (type = "mpegts"), queue |-> <<>>]

\* getIdlingLiveStream(): the objects of the registry that are Idling, each looked up
\* again through LiveStream(channel_id, quality), in the dict's iteration order
RECURSIVE IdlingFrom(_, _, _)
IdlingFrom(reg, in, i) ==
    IF i > Len(reg) THEN <<>>
    ELSE IF in[reg[i].obj].status = "Idling"
         THEN LET parts == Split(in[reg[i].obj].livestream_id)
              IN  <<RegGet(reg, LivestreamId(parts[1], parts[2]))>> \o IdlingFrom(reg, in, i + 1)
         ELSE IdlingFrom(reg, in, i + 1)

GetIdlingLiveStream(reg, in) == IdlingFrom(reg, in, 1)

\* -------------------------------------------------------- whole methods

\* the record of a call that ran alone: op and self; for connect the id returned (cid),
\* and what held when it was called: clientsCount (count0), the status (st), the
\* Idling objects of the registry (idl); for setStatus the arguments (st, dt) and
\* whether it logged; for disconnect what the slot held (st: a client, None, or "" when
\* the list was empty); for read the client id (cid) and what it returned (st: data,
\* with the payload in count0, or None); for a call that raised (op) the exception
\* (st), the method (dt) and the client id (cid); for write the payload (count0); rep: the call repeats the setStatus before it, or is the
\* disconnect of the id that the connect before it returned on the same stream
NoLast == [op |-> "", self |-> 0, cid |-> -1, count0 |-> 0, st |-> "", dt |-> "",
           logged |-> FALSE, rep |-> FALSE, idl |-> {}]

Init ==
    /\ livestreams = <<>>
    /\ inst = <<>>
    /\ clients = <<>>
    /\ now = 0
    /\ pc = [t \in Threads |-> "idle"]
    /\ loc = [t \in Threads |-> [op |-> ""]]
    /\ returned = {}
    /\ owner = <<>>
    /\ gone = {}
    /\ expect = <<>>
    /\ balance = <<>>
    /\ last = NoLast
    /\ nwrites = 0

\* time.time() read when the clock showed n: the clock does not go back
TimeTime(n) == { m \in {n, n + 1} : m <= MaxTime }

\* a setStatus that never takes the early return
SetStatusNever(in, o, status, detail) == FALSE

\* if self.status == status and self.detail == detail: return
SetStatusSame(in, o, status, detail) == in[o].status = status /\ in[o].detail = detail

\* setStatus(status, detail) on object o, time.time() returning n
SetStatus(in, o, status, detail, n) ==
    IF SetStatusSame(in, o, status, detail) THEN in
    ELSE [in EXCEPT ![o].status = status, ![o].detail = detail, ![o].updated_at = n]

\* a connect that releases the last Idling stream of the list instead of the first
VictimLast(idling) == idling[Len(idling)]

\* the stream connect releases: idling_livestream[0]
Victim(idling) == idling[1]

\* a disconnect that leaves the slot as it is
TombstoneNothing(cl, cid) == cl

\* a disconnect that puts the client back into a slot that holds None
TombstoneToggle(cl, cid) == [cl EXCEPT ![cid + 1].alive = ~@]

\* self.clients[client_id] = None
Tombstone(cl, cid) == [cl EXCEPT ![cid + 1].alive = FALSE]

\* client.queue.put(stream_data) if client is not None and client.type == 'mpegts'
Put(cl, s, data) ==
    IF cl[s].alive /\ cl[s].type = "mpegts"
    THEN [cl EXCEPT ![s].queue = Append(@, data)]
    ELSE cl

\* for client in self.clients: ..., from slot s on
RECURSIVE PutFrom(_, _, _)
PutFrom(cl, s, data) == IF s > Len(cl) THEN cl ELSE PutFrom(Put(cl, s, data), s + 1, data)

\* LiveStream(channel_id, quality): __new__, then __init__ on the object it returns
GetOrCreate(a) ==
    /\ LET id == LivestreamId(a[1], a[2])
           reg == IF id \in RegKeys(livestreams) THEN livestreams
                  ELSE RegPut(livestreams, id, Len(inst) + 1)
           in == IF id \in RegKeys(livestreams) THEN inst ELSE Append(inst, NewObject(id))
           obj == RegGet(reg, id)
       IN  /\ livestreams' = reg
           /\ inst' = [in EXCEPT ![obj].livestream_id = LivestreamId(a[1], a[2])]
           /\ balance' = IF id \in RegKeys(livestreams) THEN balance ELSE Append(balance, 0)
           /\ returned' = returned \cup {obj}
    /\ last' = NoLast
    /\ UNCHANGED << clients, now, pc, loc, owner, gone, expect, nwrites >>

\* setStatus(a[1], a[2]) on stream o, from check to return
SetStatusAlone(o, a) ==
    /\ o \in returned
    /\ \E n \in TimeTime(now) :
        /\ SetStatusSame(inst, o, a[1], a[2]) => n = now
        /\ inst' = SetStatus(inst, o, a[1], a[2], n)
        /\ now' = n

\* the encoder task / monitor calls setStatus(a[1], a[2]) on stream o
MonitorSetStatus(o, a) ==
    /\ SetStatusAlone(o, a)
    /\ last' = [NoLast EXCEPT !.op = "setStatus", !.self = o, !.st = a[1], !.dt = a[2],
                              !.logged = ~SetStatusSame(inst, o, a[1], a[2]),
                              !.rep = (/\ last.op = "setStatus" /\ last.self = o
                                       /\ last.st = a[1] /\ last.dt = a[2])]
    /\ UNCHANGED << livestreams, clients, pc, loc, returned, owner, gone, expect, balance,
                    nwrites >>

\* connect(type) on stream o, from call to return
ConnectAlone(o, type) ==
    /\ o \in returned
    /\ Len(clients) < MaxClients
    /\ LET offline == GetStatus(inst, clients, o).status = "Offline"
           idling == IF offline THEN GetIdlingLiveStream(livestreams, inst) ELSE <<>>
           cl == Append(clients, NewClient(type))
       IN  \E n1 \in TimeTime(now) : \E n2 \in TimeTime(n1) : \E n3 \in TimeTime(n2) :
            LET in1 == IF Len(idling) > 0
                       THEN SetStatus(inst, Victim(idling), "Offline", dReleased, n1)
                       ELSE inst
                in2 == IF offline THEN SetStatus(in1, o, "Standby", dStarting, n2) ELSE in1
                idle == GetStatus(in2, cl, o).status = "Idling"
                in3 == IF idle THEN SetStatus(in2, o, "ONAir", dONAir, n3) ELSE in2
            IN  /\ in1 = inst => n1 = now
                /\ in2 = in1 => n2 = n1
                /\ in3 = in2 => n3 = n2
                /\ inst' = in3
                /\ now' = n3
                /\ clients' = cl
                \* one launch if Offline was read, one Offline->Standby change if made
                /\ balance' = [balance EXCEPT ![o] =
                                  @ + (IF offline THEN 1 ELSE 0)
                                    - (IF in1[o].status = "Offline" /\ in2[o].status = "Standby"
                                       THEN 1 ELSE 0)]
                /\ last' = [NoLast EXCEPT !.op = "connect", !.self = o,
                                          !.cid = Len(cl) - 1,
                                          !.count0 = GetStatus(inst, clients, o).clients_count,
                                          !.st = inst[o].status,
                                          !.idl = { x \in DOMAIN inst :
                                                      inst[x].status = "Idling" }]
    /\ UNCHANGED << livestreams, pc, loc, returned, gone, nwrites >>

\* connect(type) on stream o, with the history of the slot it appends
Connect(o, type) ==
    /\ ConnectAlone(o, type)
    /\ owner' = Append(owner, o)
    /\ expect' = Append(expect, <<>>)

\* connect('hls') on stream o where no history of the slots is kept
ConnectViewer(o) ==
    /\ ConnectAlone(o, "hls")
    /\ UNCHANGED << owner, expect >>

\* disconnect(client_id) on stream o: an index past the end of a list that is not
\* empty raises IndexError
Disconnect(o, cid) ==
    /\ o \in returned
    /\ IF Len(clients) > 0 /\ cid < Len(clients)
       THEN /\ clients' = Tombstone(clients, cid)
            /\ gone' = IF owner[cid + 1] = o THEN gone \cup {cid + 1} ELSE gone
       ELSE UNCHANGED << clients, gone >>
    /\ last' = IF Len(clients) > 0 /\ cid >= Len(clients)
               THEN [NoLast EXCEPT !.op = "raise", !.st = "IndexError",
                                   !.dt = "disconnect", !.self = o, !.cid = cid]
               ELSE [NoLast EXCEPT !.op = "disconnect", !.self = o, !.cid = cid,
                                   !.st = IF Len(clients) = 0 THEN ""
                                          ELSE IF clients[cid + 1].alive THEN "client"
                                          ELSE "None",
                                   !.count0 = last.count0,
                                   !.rep = (/\ last.op = "connect" /\ last.self = o
                                            /\ last.cid = cid)]
    /\ UNCHANGED << livestreams, inst, now, pc, loc, returned, owner, expect, balance,
                    nwrites >>

\* read(client_id) on stream o that returns a payload: the slot is there and holds a
\* client with a queue, and queue.get() returns once the queue is not empty
ReadData(o, cid) ==
    /\ o \in returned
    /\ Len(clients) > 0 /\ cid < Len(clients)
    /\ clients[cid + 1].alive /\ clients[cid + 1].hasq
    /\ Len(clients[cid + 1].queue) > 0
    /\ clients' = [clients EXCEPT ![cid + 1].queue = Tail(@)]
    /\ expect' = [expect EXCEPT ![cid + 1] = IF Len(@) > 0 THEN Tail(@) ELSE @]
    /\ last' = [NoLast EXCEPT !.op = "read", !.self = o, !.cid = cid, !.st = "data",
                              !.count0 = Head(clients[cid + 1].queue)]
    /\ UNCHANGED << livestreams, inst, now, pc, loc, returned, owner, gone, balance, nwrites >>

\* read(client_id) on stream o that returns None (no slot in an empty list, a
\* tombstone) or raises: IndexError past the end of the list, AttributeError for the
\* queue None of an hls client (except TypeError does not catch it)
ReadNoData(o, cid) ==
    /\ o \in returned
    /\ ~(Len(clients) > 0 /\ cid < Len(clients)
         /\ clients[cid + 1].alive /\ clients[cid + 1].hasq)
    /\ last' = IF Len(clients) > 0 /\ cid >= Len(clients)
               THEN [NoLast EXCEPT !.op = "raise", !.st = "IndexError",
                                   !.dt = "read", !.self = o, !.cid = cid]
               ELSE IF Len(clients) > 0 /\ clients[cid + 1].alive
               THEN [NoLast EXCEPT !.op = "raise", !.st = "AttributeError",
                                   !.dt = "read", !.self = o, !.cid = cid]
               ELSE [NoLast EXCEPT !.op = "read", !.self = o, !.cid = cid, !.st = "None"]
    /\ UNCHANGED << prog, pc, loc, returned, owner, gone, expect, balance, nwrites >>

\* write(stream_data) on stream o. The payload of the n-th write call is n: payloads
\* are opaque, and distinct payloads show every reordering, loss and duplication
Write(o) ==
    /\ o \in returned
    /\ nwrites < MaxWrites
    /\ nwrites' = nwrites + 1
    /\ clients' = PutFrom(clients, 1, nwrites + 1)
    /\ expect' = [s \in DOMAIN expect |->
                    IF owner[s] = o /\ s \notin gone /\ clients[s].hasq
                    THEN Append(expect[s], nwrites + 1) ELSE expect[s]]
    /\ last' = [NoLast EXCEPT !.op = "write", !.self = o, !.count0 = nwrites + 1]
    /\ UNCHANGED << livestreams, inst, now, pc, loc, returned, owner, gone, balance >>

\* -------------------------------------------------- the methods in steps

NoPre == [status |-> "", first |-> FALSE]

\* locals of a running call, and its history: pre (the stream's status when the call
\* started, and whether no connect on it had inserted a slot yet), app (the call has
\* appended its slot), made (the call set a victim Offline)
NoLoc == [op |-> "", self |-> 0, args |-> <<>>, key |-> <<>>, type |-> "", cid |-> -1,
          tgt |-> 0, tst |-> "", tdt |-> "", cont |-> "", idling |-> <<>>,
          app |-> FALSE, pre |-> NoPre, made |-> FALSE]

Idle(t) == pc[t] = "idle"

\* threads running connect on object o
InConnect(o) == { t \in Threads : loc[t].op = "connect" /\ loc[t].self = o }

\* connect calls that have not appended their slot yet
PendingAppends == { t \in Threads : loc[t].op = "connect" /\ ~loc[t].app }

\* a call returns
Return(t) ==
    /\ pc' = [pc EXCEPT ![t] = "idle"]
    /\ loc' = [loc EXCEPT ![t] = [op |-> ""]]

\* LiveStream(channel_id, quality) is called: __new__ computes livestream_id
NewCall(t, a) ==
    /\ Idle(t)
    /\ loc' = [loc EXCEPT ![t] = [NoLoc EXCEPT !.op = "new", !.args = a,
                                               !.key = LivestreamId(a[1], a[2])]]
    /\ pc' = [pc EXCEPT ![t] = "new_check"]
    /\ UNCHANGED << prog, ghost >>

\* if livestream_id not in cls.livestreams
NewCheck(t) ==
    /\ pc[t] = "new_check"
    /\ pc' = [pc EXCEPT ![t] = IF loc[t].key \in RegKeys(livestreams)
                               THEN "new_ret" ELSE "new_store"]
    /\ UNCHANGED << prog, ghost, loc >>

\* cls.livestreams[livestream_id] = super().__new__(cls)
NewStore(t) ==
    /\ pc[t] = "new_store"
    /\ inst' = Append(inst, NewObject(loc[t].key))
    /\ livestreams' = RegPut(livestreams, loc[t].key, Len(inst) + 1)
    /\ balance' = Append(balance, 0)
    /\ pc' = [pc EXCEPT ![t] = "new_ret"]
    /\ UNCHANGED << clients, now, loc, returned, owner, gone, expect, last, nwrites >>

\* return cls.livestreams[livestream_id], then __init__ on the returned object
NewReturn(t) ==
    /\ pc[t] = "new_ret"
    /\ LET obj == RegGet(livestreams, loc[t].key)
       IN  /\ inst' = [inst EXCEPT ![obj].livestream_id =
                                        LivestreamId(loc[t].args[1], loc[t].args[2])]
           /\ returned' = returned \cup {obj}
    /\ Return(t)
    /\ UNCHANGED << livestreams, clients, now, owner, gone, expect, balance, last, nwrites >>

\* the locals of a call of setStatus on object o that continues at cont
SsBegin(l, o, status, detail, cont) ==
    [l EXCEPT !.tgt = o, !.tst = status, !.tdt = detail, !.cont = cont]

\* setStatus returns to its caller: its frame is gone
SsEnd(l) == [l EXCEPT !.tgt = NoLoc.tgt, !.tst = NoLoc.tst, !.tdt = NoLoc.tdt,
                      !.cont = NoLoc.cont]

\* if self.status == status and self.detail == detail: return
SsCheck(t) ==
    /\ pc[t] = "ss_check"
    /\ IF SetStatusSame(inst, loc[t].tgt, loc[t].tst, loc[t].tdt)
       THEN /\ pc' = [pc EXCEPT ![t] = loc[t].cont]
            /\ loc' = [loc EXCEPT ![t] = SsEnd(@)]
       ELSE /\ pc' = [pc EXCEPT ![t] = "ss_status"]
            /\ UNCHANGED loc
    /\ UNCHANGED << prog, ghost >>

\* Logging.info(...); self.status = status
SsStatus(t) ==
    /\ pc[t] = "ss_status"
    /\ LET l == loc[t]
           old == inst[l.tgt].status
       IN  /\ inst' = [inst EXCEPT ![l.tgt].status = l.tst]
           /\ balance' = IF l.cont = "conn_launch" /\ old = "Offline"
                         THEN [balance EXCEPT ![l.self] = @ - 1] ELSE balance
           /\ loc' = [loc EXCEPT ![t].made = @ \/ (l.cont = "conn_standby" /\ old # "Offline")]
    /\ pc' = [pc EXCEPT ![t] = "ss_detail"]
    /\ UNCHANGED << livestreams, clients, now, returned, owner, gone, expect, last, nwrites >>

\* self.detail = detail
SsDetail(t) ==
    /\ pc[t] = "ss_detail"
    /\ inst' = [inst EXCEPT ![loc[t].tgt].detail = loc[t].tdt]
    /\ pc' = [pc EXCEPT ![t] = "ss_time"]
    /\ UNCHANGED << livestreams, clients, now, ghost, loc >>

\* self.updated_at = time.time()
SsTime(t) ==
    /\ pc[t] = "ss_time"
    /\ \E n \in TimeTime(now) :
        /\ now' = n
        /\ inst' = [inst EXCEPT ![loc[t].tgt].updated_at = n]
    /\ pc' = [pc EXCEPT ![t] = loc[t].cont]
    /\ loc' = [loc EXCEPT ![t] = SsEnd(@)]
    /\ UNCHANGED << livestreams, clients, ghost >>

\* the encoder task / monitor calls setStatus(a[1], a[2]) on stream o between the
\* connect calls
MonitorActs(o, a) ==
    /\ \A t \in Threads : Idle(t)
    /\ SetStatusAlone(o, a)
    /\ UNCHANGED << livestreams, clients, pc, loc, ghost >>

\* connect(type) is called on stream o
ConnectCall(t, o, type) ==
    /\ Idle(t)
    /\ o \in returned
    /\ Len(clients) + Cardinality(PendingAppends) < MaxClients
    /\ loc' = [loc EXCEPT ![t] =
                 [NoLoc EXCEPT !.op = "connect", !.self = o, !.type = type,
                               !.pre = [status |-> inst[o].status,
                                        first |-> (\A s \in DOMAIN owner : owner[s] # o)]]]
    /\ pc' = [pc EXCEPT ![t] = "conn_status"]
    /\ UNCHANGED << prog, ghost >>

\* if self.getStatus()['status'] == 'Offline'
ConnStatus(t) ==
    /\ pc[t] = "conn_status"
    /\ pc' = [pc EXCEPT ![t] =
                IF GetStatus(inst, clients, loc[t].self).status = "Offline"
                THEN "conn_scan" ELSE "conn_append"]
    /\ UNCHANGED << prog, ghost, loc >>

\* idling_livestream = self.getIdlingLiveStream(); if len(idling_livestream) > 0
ConnScan(t) ==
    /\ pc[t] = "conn_scan"
    /\ LET idling == GetIdlingLiveStream(livestreams, inst)
       IN  /\ loc' = [loc EXCEPT ![t].idling = idling]
           /\ pc' = [pc EXCEPT ![t] = IF Len(idling) > 0 THEN "conn_victim" ELSE "conn_standby"]
    /\ UNCHANGED << prog, ghost >>

\* idling_livestream[0].setStatus('Offline', ...)
ConnVictim(t) ==
    /\ pc[t] = "conn_victim"
    /\ loc' = [loc EXCEPT ![t] = SsBegin([@ EXCEPT !.idling = NoLoc.idling],
                                         Victim(loc[t].idling), "Offline", dReleased,
                                         "conn_standby")]
    /\ pc' = [pc EXCEPT ![t] = "ss_check"]
    /\ UNCHANGED << prog, ghost >>

\* self.setStatus('Standby', ...)
ConnStandby(t) ==
    /\ pc[t] = "conn_standby"
    /\ loc' = [loc EXCEPT ![t] = SsBegin(@, loc[t].self, "Standby", dStarting, "conn_launch")]
    /\ pc' = [pc EXCEPT ![t] = "ss_check"]
    /\ UNCHANGED << prog, ghost >>

\* thread = threading.Thread(target=run, name='LiveEncodingTask'); thread.start()
ConnLaunch(t) ==
    /\ pc[t] = "conn_launch"
    /\ balance' = [balance EXCEPT ![loc[t].self] = @ + 1]
    /\ pc' = [pc EXCEPT ![t] = "conn_append"]
    /\ UNCHANGED << prog, loc, returned, owner, gone, expect, last, nwrites >>

\* self.clients.append(LiveStreamClient(...))
ConnAppend(t) ==
    /\ pc[t] = "conn_append"
    /\ clients' = Append(clients, NewClient(loc[t].type))
    /\ owner' = Append(owner, loc[t].self)
    /\ expect' = Append(expect, <<>>)
    /\ loc' = [loc EXCEPT ![t].app = TRUE]
    /\ pc' = [pc EXCEPT ![t] = "conn_id"]
    /\ UNCHANGED << livestreams, inst, now, returned, gone, balance, last, nwrites >>

\* client_id = len(self.clients) - 1
ConnId(t) ==
    /\ pc[t] = "conn_id"
    /\ loc' = [loc EXCEPT ![t].cid = Len(clients) - 1]
    /\ pc' = [pc EXCEPT ![t] = "conn_recheck"]
    /\ UNCHANGED << prog, ghost >>

\* if self.getStatus()['status'] == 'Idling': self.setStatus('ONAir', ...)
ConnRecheck(t) ==
    /\ pc[t] = "conn_recheck"
    /\ IF GetStatus(inst, clients, loc[t].self).status = "Idling"
       THEN /\ loc' = [loc EXCEPT ![t] = SsBegin(@, loc[t].self, "ONAir", dONAir, "conn_ret")]
            /\ pc' = [pc EXCEPT ![t] = "ss_check"]
       ELSE /\ pc' = [pc EXCEPT ![t] = "conn_ret"]
            /\ UNCHANGED loc
    /\ UNCHANGED << prog, ghost >>

\* return client_id
ConnReturn(t) ==
    /\ pc[t] = "conn_ret"
    /\ Return(t)
    /\ UNCHANGED << prog, ghost >>

\* read(client_id) is called on stream o
ReadCall(t, o, cid) ==
    /\ Idle(t)
    /\ o \in returned
    /\ loc' = [loc EXCEPT ![t] = [NoLoc EXCEPT !.op = "read", !.self = o, !.cid = cid]]
    /\ pc' = [pc EXCEPT ![t] = "read_check"]
    /\ UNCHANGED << prog, ghost >>

\* if len(self.clients) > 0 and self.clients[client_id] is not None; else: return None
\* (an index past the end of a list that is not empty raises IndexError)
ReadCheck(t) ==
    /\ pc[t] = "read_check"
    /\ IF /\ Len(clients) > 0 /\ loc[t].cid < Len(clients)
          /\ clients[loc[t].cid + 1].alive
       THEN pc' = [pc EXCEPT ![t] = "read_deref"] /\ UNCHANGED loc
       ELSE Return(t)
    /\ UNCHANGED << prog, ghost >>

\* self.clients[client_id].queue.get(): the slot is read again; None (a disconnect
\* came in between) and the queue None of an hls client raise AttributeError, else the
\* thread enters get() on the client's queue
ReadDeref(t) ==
    /\ pc[t] = "read_deref"
    /\ IF clients[loc[t].cid + 1].alive /\ clients[loc[t].cid + 1].hasq
       THEN pc' = [pc EXCEPT ![t] = "read_get"] /\ UNCHANGED loc
       ELSE Return(t)
    /\ UNCHANGED << prog, ghost >>

\* queue.get() returns once the queue holds a payload; the thread keeps the queue it
\* entered whatever happens to the slot in the list
ReadGet(t) ==
    /\ pc[t] = "read_get"
    /\ Len(clients[loc[t].cid + 1].queue) > 0
    /\ clients' = [clients EXCEPT ![loc[t].cid + 1].queue = Tail(@)]
    /\ expect' = [expect EXCEPT ![loc[t].cid + 1] = IF Len(@) > 0 THEN Tail(@) ELSE @]
    /\ Return(t)
    /\ UNCHANGED << livestreams, inst, now, returned, owner, gone, balance, last, nwrites >>

\* ------------------------------------------------------------ specifications

\* the pairs of args a call may ask for: those asked for before, and the next one
Asked(args) == { args[i] : i \in { j \in DOMAIN args : j <= Len(livestreams) + 1 } }

ClientIds == 0 .. MaxClients

\* Spec: the status machine. Calls run one after the other: get-or-create, the
\* monitor's setStatus, and connect by hls viewers (the kind of client plays no part
\* in what connect does to the statuses; SpecTable and SpecIO connect both kinds and
\* keep the history of the slots)
Next ==
    \/ \E a \in Asked(Args) : GetOrCreate(a)
    \/ \E o \in DOMAIN inst, a \in MonitorArgs : MonitorSetStatus(o, a)
    \/ \E o \in DOMAIN inst : ConnectViewer(o)

Spec == Init /\ [][Next]_vars

\* SpecTable: the client table. Calls run one after the other: get-or-create, connect
\* and disconnect
NextTable ==
    \/ \E a \in Asked(IOArgs) : GetOrCreate(a)
    \/ \E o \in DOMAIN inst, type \in ClientTypes : Connect(o, type)
    \/ \E o \in DOMAIN inst, cid \in ClientIds : Disconnect(o, cid)

SpecTable == Init /\ [][NextTable]_vars

\* SpecIO: the payloads. Calls run one after the other: get-or-create, connect,
\* disconnect, read and write
NextIO ==
    \/ \E a \in Asked(IOArgs) : GetOrCreate(a)
    \/ \E o \in DOMAIN inst, type \in ClientTypes : Connect(o, type)
    \/ \E o \in DOMAIN inst, cid \in ClientIds : Disconnect(o, cid)
    \/ \E o \in DOMAIN inst, cid \in ClientIds : ReadData(o, cid)
    \/ \E o \in DOMAIN inst, cid \in ClientIds : ReadNoData(o, cid)
    \/ \E o \in DOMAIN inst : Write(o)

SpecIO == Init /\ [][NextIO]_vars

\* SpecNew: threads race in LiveStream(channel_id, quality)
NextNew ==
    \E t \in Threads :
        \/ \E a \in Asked(Args) : NewCall(t, a)
        \/ NewCheck(t)
        \/ NewStore(t)
        \/ NewReturn(t)

SpecNew == Init /\ [][NextNew]_vars

\* SpecConc: threads race in connect; between the races streams are created and the
\* monitor calls setStatus
NextConc ==
    \/ \E a \in Asked(Args) : (\A t \in Threads : Idle(t)) /\ GetOrCreate(a)
    \/ \E o \in DOMAIN inst, a \in MonitorArgs : MonitorActs(o, a)
    \/ \E t \in Threads :
        \/ SsCheck(t)
        \/ SsStatus(t)
        \/ SsDetail(t)
        \/ SsTime(t)
        \/ \E o \in DOMAIN inst : ConnectCall(t, o, "hls")
        \/ ConnStatus(t)
        \/ ConnScan(t)
        \/ ConnVictim(t)
        \/ ConnStandby(t)
        \/ ConnLaunch(t)
        \/ ConnAppend(t)
        \/ ConnId(t)
        \/ ConnRecheck(t)
        \/ ConnReturn(t)

SpecConc == Init /\ [][NextConc]_vars

\* SpecRead: threads call read on one stream and block in queue.get() while connect,
\* disconnect, write and the monitor's setStatus('Offline', ...) run. A thread that can
\* take its next step does take it; nothing obliges the callers of the other methods
NextRead ==
    \/ GetOrCreate(Args[1])
    \/ \E o \in DOMAIN inst, type \in ClientTypes : Connect(o, type)
    \/ \E o \in DOMAIN inst, cid \in ClientIds : Disconnect(o, cid)
    \/ \E o \in DOMAIN inst : Write(o)
    \/ \E o \in DOMAIN inst : MonitorSetStatus(o, <<"Offline", dOffline>>)
    \/ \E t \in Threads :
        \/ \E o \in DOMAIN inst, cid \in ClientIds : ReadCall(t, o, cid)
        \/ ReadCheck(t)
        \/ ReadDeref(t)
        \/ ReadGet(t)

SpecRead ==
    /\ Init /\ [][NextRead]_vars
    /\ \A t \in Threads : WF_vars(ReadCheck(t)) /\ WF_vars(ReadDeref(t)) /\ WF_vars(ReadGet(t))

\* -------------------------------------------------------------------- claims

\* C1 (SpecNew): whatever way the get-or-create calls of several threads interleave,
\* one instance at most is ever constructed for a key, and the calls for a key all
\* return that one instance
C1_OneInstancePerKey ==
    /\ \A o1, o2 \in DOMAIN inst : inst[o1].key = inst[o2].key => o1 = o2
    /\ \A o1, o2 \in returned : inst[o1].key = inst[o2].key => o1 = o2

\* C2 (SpecTable): after any connect and disconnect calls on any streams, the
\* clientsCount that getStatus() reports for a stream is the number of clients that
\* connected to that stream and were not disconnected from it
C2_OwnClientTable ==
    \A o \in returned :
        GetStatus(inst, clients, o).clients_count =
            Cardinality({ s \in DOMAIN owner : owner[s] = o /\ s \notin gone })

\* C3 (SpecConc): when the connect calls that raced on a stream that was Offline and
\* had no client are all done (no call is running but some of them about to return),
\* the stream's clientsCount is the number of these calls and its status is ONAir or
\* Standby
C3_CountAfterConcurrentConnects ==
    \A o \in DOMAIN inst :
        LET done == { t \in Threads : /\ loc[t].op = "connect" /\ loc[t].self = o
                                      /\ pc[t] = "conn_ret" }
        IN  (/\ \E t \in done : loc[t].pre.status = "Offline" /\ loc[t].pre.first
             /\ \A t \in Threads \ done : Idle(t))
            => /\ GetStatus(inst, clients, o).clients_count =
                      Cardinality({ s \in DOMAIN owner : owner[s] = o })
               /\ inst[o].status \in {"ONAir", "Standby"}

\* C4 (SpecConc): of the connect calls running on the same stream that they found
\* Offline, one at most has made an Idling stream Offline
C4_OneVictim ==
    \A o \in DOMAIN inst :
        Cardinality({ t \in Threads : /\ loc[t].op = "connect" /\ loc[t].self = o
                                      /\ loc[t].pre.status = "Offline"
                                      /\ loc[t].made }) <= 1

C6_PerSlotFifo ==
    \A s \in DOMAIN clients :
        (clients[s].alive /\ clients[s].type = "mpegts") => clients[s].queue = expect[s]

\* C7 (SpecConc): when no connect call is running on a stream, the encoder has been
\* launched for it as many times as connect changed its status from Offline to Standby
C7_OneLaunchPerOfflineToStandby ==
    \A o \in DOMAIN inst :
        (\A t \in Threads : ~(loc[t].op = "connect" /\ loc[t].self = o)) => balance[o] = 0

\* C8 (SpecTable): after connect and then at once disconnect of the returned client id on
\* the same stream, the stream's clientsCount is what it was before the connect
C8_ConnectDisconnectNetZero ==
    (last.op = "disconnect" /\ last.rep) =>
        GetStatus(inst, clients, last.self).clients_count = last.count0

\* C8, the case: connect then disconnect have run on a client table that held a
\* tombstone before
C8_Witness ==
    /\ last.op = "disconnect" /\ last.rep
    /\ Len(clients) = 2 /\ ~clients[1].alive /\ last.cid = 1

\* C9 (Spec): setStatus(s, d) leaves the stream with status s and detail d; when both
\* equalled the stream's status and detail it changes nothing (status, detail,
\* updated_at) and logs nothing, otherwise it logs and sets updated_at to the time
\* read; so of two calls in a row with the same (s, d) the second changes and logs
\* nothing
C9_SetStatusNoOp ==
    [][\A o \in DOMAIN inst, a \in MonitorArgs :
         MonitorSetStatus(o, a) =>
            LET same == inst[o].status = a[1] /\ inst[o].detail = a[2]
                again == /\ last.op = "setStatus" /\ last.self = o
                         /\ last.st = a[1] /\ last.dt = a[2]
            IN  /\ inst'[o].status = a[1] /\ inst'[o].detail = a[2]
                /\ same => (inst' = inst /\ ~last'.logged)
                /\ ~same => (inst'[o].updated_at = now' /\ last'.logged)
                /\ again => (inst' = inst /\ ~last'.logged)
      ]_vars

\* C9, the case: the same setStatus(s, d) has run twice in a row on a stream, the
\* second time without logging
C9_Witness ==
    /\ last.op = "setStatus" /\ last.rep /\ ~last.logged
    /\ inst[last.self].status = last.st /\ inst[last.self].detail = last.dt

\* C10 (SpecTable): after the first connect to a stream that was Offline while no stream of
\* the registry was Idling, the stream is Standby and the client id returned is 0
C10_FirstConnectReturnsZero ==
    (/\ last.op = "connect" /\ last.st = "Offline" /\ last.idl = {}
     /\ \A s \in DOMAIN owner : owner[s] = last.self => s = Len(owner))
    => (inst[last.self].status = "Standby" /\ last.cid = 0)

\* C11 (SpecTable): disconnect of a client id whose slot already holds None does not
\* raise and changes neither the client list (so neither clientsCount nor any other
\* slot) nor the status, detail and updated_at of any stream
C11_DisconnectTwiceNoOp ==
    [][\A o \in DOMAIN inst, cid \in ClientIds :
         (Disconnect(o, cid) /\ cid < Len(clients) /\ ~clients[cid + 1].alive) =>
            /\ last'.op # "raise"
            /\ clients' = clients
            /\ GetStatus(inst', clients', o) = GetStatus(inst, clients, o)
            /\ inst' = inst
      ]_vars

\* C11, the case: disconnect has run on a slot that held None, next to a live slot
C11_Witness ==
    /\ last.op = "disconnect" /\ last.st = "None"
    /\ \E s \in DOMAIN clients : clients[s].alive

\* C12 (SpecIO): a disconnect or a read with a client id that has no slot (past the
\* end of the list, empty or not) does not raise, and the read returns None
C12_InvalidIdNeverRaises ==
    (/\ last.cid >= Len(clients)
     /\ \/ last.op \in {"disconnect", "read"}
        \/ last.op = "raise" /\ last.dt \in {"disconnect", "read"})
    => (last.op # "raise" /\ (last.op = "read" => last.st = "None"))

\* C13 (SpecIO): a read of a slot that holds an hls client (queue None) returns None,
\* without an error
C13_PullReadReturnsNone ==
    (/\ \/ last.op = "read"
        \/ last.op = "raise" /\ last.dt = "read"
     /\ last.cid < Len(clients)
     /\ clients[last.cid + 1].alive /\ clients[last.cid + 1].type = "hls")
    => (last.op = "read" /\ last.st = "None")

\* C14 (SpecConc): the client id a connect call has got is the index of a slot that a
\* connect on its stream appended, and two connect calls running on the same stream
\* have not got the same client id
C14_ClientIdsDistinct ==
    /\ \A t \in Threads :
          (loc[t].op = "connect" /\ loc[t].cid # -1) => owner[loc[t].cid + 1] = loc[t].self
    /\ \A t1, t2 \in Threads :
          (/\ t1 # t2
           /\ loc[t1].op = "connect" /\ loc[t2].op = "connect"
           /\ loc[t1].self = loc[t2].self
           /\ loc[t1].cid # -1 /\ loc[t2].cid # -1)
          => loc[t1].cid # loc[t2].cid

\* C15 (SpecIO): after write(payload) on stream S the payload is in a slot's queue,
\* once and last, exactly when the slot was appended by a connect on S, holds a client
\* (not None) and the client is an mpegts client
C15_WriteFanOut ==
    last.op = "write" =>
        \A s \in DOMAIN clients :
            LET q == clients[s].queue
                n == Cardinality({ i \in DOMAIN q : q[i] = last.count0 })
            IN  IF owner[s] = last.self /\ clients[s].alive /\ clients[s].type = "mpegts"
                THEN n = 1 /\ q[Len(q)] = last.count0
                ELSE n = 0

\* C16 (SpecConc): two connect calls running on two different streams that they found
\* Offline are never both releasing (inside the victim's setStatus) the same Idling
\* stream
C16_DistinctVictims ==
    \A t1, t2 \in Threads :
        (/\ t1 # t2
         /\ loc[t1].op = "connect" /\ loc[t2].op = "connect"
         /\ loc[t1].self # loc[t2].self
         /\ loc[t1].pre.status = "Offline" /\ loc[t2].pre.status = "Offline"
         /\ loc[t1].cont = "conn_standby" /\ loc[t2].cont = "conn_standby")
        => loc[t1].tgt # loc[t2].tgt

\* C17 (Spec): a connect call that runs alone on a stream that is not Offline launches
\* no encoder (the stream's launches stay level with its Offline-to-Standby changes,
\* and it makes no such change), changes no other stream, makes an Idling stream
\* ONAir, and leaves the status, detail and updated_at of a Standby or ONAir stream
C17_ConnectNotOffline ==
    [][\A o \in DOMAIN inst :
         (ConnectViewer(o) /\ inst[o].status # "Offline") =>
            /\ balance' = balance
            /\ \A x \in DOMAIN inst \ {o} : inst'[x] = inst[x]
            /\ inst[o].status = "Idling" => inst'[o].status = "ONAir"
            /\ inst[o].status \in {"Standby", "ONAir"} => inst'[o] = inst[o]
            /\ Len(clients') = Len(clients) + 1
      ]_vars

\* C17, the case: a connect has run on a stream that was Idling while another stream
\* was Idling too, and the stream is ONAir
C17_Witness ==
    /\ last.op = "connect" /\ last.st = "Idling"
    /\ Cardinality(last.idl) >= 2
    /\ inst[last.self].status = "ONAir"

\* C18 (SpecConc): when a connect called on an Idling stream S and a connect called on
\* a different, Offline stream T are both about to return, S is Standby or ONAir
C18_ViewerNeverReclaimed ==
    \A t1, t2 \in Threads :
        (/\ t1 # t2
         /\ pc[t1] = "conn_ret" /\ pc[t2] = "conn_ret"
         /\ loc[t1].self # loc[t2].self
         /\ loc[t1].pre.status = "Idling" /\ loc[t2].pre.status = "Offline")
        => inst[loc[t1].self].status \in {"Standby", "ONAir"}

\* C20 (SpecConc): whenever another thread may take a getStatus snapshot of a stream,
\* the status and detail it shows are the class defaults or those that one setStatus
\* call was passed, never the status of one call with the detail left by another
C20_StatusChangeAtomic ==
    \A o \in DOMAIN inst :
        << GetStatus(inst, clients, o).status, GetStatus(inst, clients, o).detail >> \in
            MonitorArgs \cup { <<"Offline", dOffline>>, <<"Offline", dReleased>>,
                               <<"Standby", dStarting>>, <<"ONAir", dONAir>> }

\* the thread t is the only one with a read in progress on its client id
SoleReader(t) ==
    \A u \in Threads \ {t} : ~(loc[u].op = "read" /\ loc[u].cid = loc[t].cid)

\* C19 (SpecRead): a thread blocked in read, the only reader of its client id, returns
\* in the end once its queue holds a payload, once its slot is disconnected (holds
\* None), or once its stream is Offline
C19_BlockedReadReturns ==
    \A t \in Threads :
        (/\ pc[t] = "read_get"
         /\ SoleReader(t)
         /\ \/ Len(clients[loc[t].cid + 1].queue) > 0
            \/ ~clients[loc[t].cid + 1].alive
            \/ inst[loc[t].self].status = "Offline")
        ~> (pc[t] # "read_get" \/ ~SoleReader(t))

====
